---- MODULE Spec2Model ----
(***************************************************************************)
(* Rakshak AI backend: the POST /analyze handler of backend/server.js and  *)
(* of its "final merged" variant (the same handler without the fallback),  *)
(* with the helpers sanitizeString, extractJSON and sendEmergencySMS.      *)
(*                                                                         *)
(* One request is followed from its arrival to its response.  The two      *)
(* awaits of the handler (model.generateContent, twilio messages.create)   *)
(* are the points where the environment answers; everything the handler    *)
(* runs between two awaits is one action.                                  *)
(*                                                                         *)
(* JavaScript strings the code inspects character by character (location,  *)
(* numeric strings) are sequences of one-character strings.  The model's   *)
(* reply is a sequence of tokens: prose, "{", "}", and "key": value        *)
(* members, which is what the regular expression of extractJSON and        *)
(* JSON.parse tell apart.                                                  *)
(***************************************************************************)
EXTENDS Integers, Sequences, FiniteSets, TLC

VARIABLES
    variant,       \* which file serves the request: "server" | "merged"
    pc,            \* "idle" | "awaitGemini" | "awaitTwilio" | "done"
    body,          \* req.body
    impactVal,     \* Number(impact)
    speedVal,      \* Number(speed)
    tiltVal,       \* Number(tilt)
    safeLocation,  \* sanitizeString(location)
    geminiCalls,   \* the prompts handed to model.generateContent, in order
    primary,       \* "none" | "pending" | "ok" | "threw" | "unparseable"
    rawText,       \* result.response.text()
    analysis,      \* the handler's local `analysis`
    smsCalls,      \* the messages handed to twilioClient.messages.create
    smsOutcome,    \* "none" | "pending" | "sent" | "failed"
    status,        \* HTTP status of the response (0: none yet)
    resBody,       \* the response body
    trace,         \* the steps of the request, in the order the code ran them
    sanPc,         \* sanitizeString applied alone: "off" | "start" | "once" | "twice"
    sanInput,      \* its argument str
    sanCap,        \* its argument maxLength
    sanOnce,       \* sanitizeString(str, maxLength)
    sanTwice       \* sanitizeString of that result

handlerVars == <<variant, pc, body, impactVal, speedVal, tiltVal, safeLocation,
                 geminiCalls, primary, rawText, analysis, smsCalls, smsOutcome,
                 status, resBody, trace>>
sanVars == <<sanPc, sanInput, sanCap, sanOnce, sanTwice>>
vars == <<handlerVars, sanVars>>

(***************************************************************************)
(* Bounds of the model.                                                    *)
(***************************************************************************)
MaxLocLen == 2
MaxStrLen == 3
MaxCap == 2

(***************************************************************************)
(* Program constants.                                                      *)
(***************************************************************************)
DefaultMaxLength == 100

Min(S) == CHOOSE x \in S : \A y \in S : x <= y
Max(S) == CHOOSE x \in S : \A y \in S : x >= y

StringsUpTo(A, n) == UNION {[1..k -> A] : k \in 0..n}

(***************************************************************************)
(* JavaScript values of a JSON request body.                               *)
(***************************************************************************)
Undefined == [t |-> "undefined", b |-> FALSE, n |-> 0, s |-> <<>>]
Null == [t |-> "null", b |-> FALSE, n |-> 0, s |-> <<>>]
Bool(x) == [t |-> "boolean", b |-> x, n |-> 0, s |-> <<>>]
Num(x) == [t |-> "number", b |-> FALSE, n |-> x, s |-> <<>>]
Str(x) == [t |-> "string", b |-> FALSE, n |-> 0, s |-> x]

(***************************************************************************)
(* JavaScript numbers: a finite value, NaN or Infinity.                    *)
(***************************************************************************)
Fin(x) == [k |-> "fin", v |-> x]
NaN == [k |-> "nan", v |-> 0]
Infinity == [k |-> "inf", v |-> 0]

isFinite(x) == x.k = "fin"

WhiteSpace == {" ", "\n", "\r", "\t"}
Digits == <<"0", "1", "2", "3", "4", "5", "6", "7", "8", "9">>
DigitSet == {Digits[i] : i \in 1..10}
DigitVal(c) == (CHOOSE i \in 1..10 : Digits[i] = c) - 1
InfinityLit == <<"I", "n", "f", "i", "n", "i", "t", "y">>

RECURSIVE TrimStart(_)
TrimStart(s) ==
    IF s # <<>> /\ Head(s) \in WhiteSpace THEN TrimStart(Tail(s)) ELSE s

RECURSIVE TrimEnd(_)
TrimEnd(s) ==
    IF s # <<>> /\ s[Len(s)] \in WhiteSpace
    THEN TrimEnd(SubSeq(s, 1, Len(s) - 1))
    ELSE s

\* String.prototype.trim
trim(s) == TrimEnd(TrimStart(s))

RECURSIVE ParseDigits(_)
ParseDigits(s) ==
    IF s = <<>> THEN 0
    ELSE ParseDigits(SubSeq(s, 1, Len(s) - 1)) * 10 + DigitVal(s[Len(s)])

\* Number(string): white space is trimmed, the empty string is 0, a run of
\* digits is its value, "Infinity" is Infinity, anything else is NaN.
StringToNumber(s) ==
    LET w == trim(s)
    IN  IF w = <<>> THEN Fin(0)
        ELSE IF \A i \in 1..Len(w) : w[i] \in DigitSet THEN Fin(ParseDigits(w))
        ELSE IF w = InfinityLit THEN Infinity
        ELSE NaN

\* Number(value)
Number(x) ==
    CASE x.t = "undefined" -> NaN
      [] x.t = "null" -> Fin(0)
      [] x.t = "boolean" -> Fin(IF x.b THEN 1 ELSE 0)
      [] x.t = "number" -> Fin(x.n)
      [] x.t = "string" -> StringToNumber(x.s)

(***************************************************************************)
(* sanitizeString                                                          *)
(***************************************************************************)
\* The backtick cannot be written in a TLA+ string: BackTick stands for it.
BackTick == "BACKTICK"
StrippedChars == {"\n", "\r", "<", ">", BackTick, "\""}

\* str.replace(/[\n\r<>BACKTICK"]/g, "")
ReplaceAll(s) == SelectSeq(s, LAMBDA c : c \notin StrippedChars)

\* str.slice(0, maxLength), maxLength >= 0
Slice(s, maxLength) ==
    SubSeq(s, 1, IF maxLength < Len(s) THEN maxLength ELSE Len(s))

\* str.replace(/[\n\r<>BACKTICK"]/, "") without the g flag: the first match only.
RECURSIVE ReplaceFirst(_)
ReplaceFirst(s) ==
    IF s = <<>> THEN <<>>
    ELSE IF Head(s) \in StrippedChars THEN Tail(s)
    ELSE <<Head(s)>> \o ReplaceFirst(Tail(s))

sanitizeStringFirstOnly(str, maxLength) ==
    IF str.t # "string" THEN <<>>
    ELSE Slice(ReplaceFirst(str.s), maxLength)

sanitizeString(str, maxLength) ==
    IF str.t # "string" THEN <<>>
    ELSE Slice(ReplaceAll(str.s), maxLength)

(***************************************************************************)
(* Values of the object the reasoning service's JSON decodes to.           *)
(***************************************************************************)
JUndef == [t |-> "undefined", b |-> FALSE, s |-> ""]
JBool(x) == [t |-> "boolean", b |-> x, s |-> ""]
JStr(x) == [t |-> "string", b |-> FALSE, s |-> x]

\* An object none of whose properties is set ({}; also `let analysis;`
\* before its assignment, whose properties the handler never reads).
EmptyObject ==
    [is_accident |-> JUndef, severity |-> JUndef, summary |-> JUndef,
     action |-> JUndef]

(***************************************************************************)
(* The text of the reasoning service's reply, as tokens.                   *)
(***************************************************************************)
Prose == [tok |-> "prose", key |-> "", val |-> JUndef]
LBrace == [tok |-> "lbrace", key |-> "", val |-> JUndef]
RBrace == [tok |-> "rbrace", key |-> "", val |-> JUndef]
Member(k, v) == [tok |-> "member", key |-> k, val |-> v]

\* JSON.parse of the tokens between the braces: an object when they are all
\* members (a repeated key keeps its last value), a SyntaxError otherwise.
JSONParseable(inner) == \A i \in 1..Len(inner) : inner[i].tok = "member"

Property(inner, k) ==
    LET at == {i \in 1..Len(inner) : inner[i].key = k}
    IN  IF at = {} THEN JUndef ELSE inner[Max(at)].val

JSONParse(inner) ==
    [is_accident |-> Property(inner, "is_accident"),
     severity |-> Property(inner, "severity"),
     summary |-> Property(inner, "summary"),
     action |-> Property(inner, "action")]

\* text.match(/\{[\s\S]*\}/): from the first "{" to the last "}" after it.
\* [threw |-> TRUE] is either throw of extractJSON ("No JSON found", or
\* JSON.parse's SyntaxError).
extractJSON(text) ==
    LET opens == {i \in 1..Len(text) : text[i].tok = "lbrace"}
        closes == {i \in 1..Len(text) : text[i].tok = "rbrace"}
    IN  IF opens = {} \/ ~(\E j \in closes : j > Min(opens))
        THEN [threw |-> TRUE, value |-> EmptyObject]
        ELSE LET inner == SubSeq(text, Min(opens) + 1, Max(closes) - 1)
             IN  IF JSONParseable(inner)
                 THEN [threw |-> FALSE, value |-> JSONParse(inner)]
                 ELSE [threw |-> TRUE, value |-> EmptyObject]

(***************************************************************************)
(* The fallback of server.js                                               *)
(***************************************************************************)
Fallback(impact, speed) ==
    [is_accident |-> JBool(impact.v > 10 /\ speed.v > 30),
     severity |-> JStr(IF impact.v > 15 THEN "CRITICAL" ELSE "MEDIUM"),
     summary |-> JStr("Fallback rule-based accident detection"),
     action |-> JStr("Dispatch Ambulance")]

(***************************************************************************)
(* The condition of the emergency action: analysis.is_accident === true && *)
(* (analysis.severity === "CRITICAL" || analysis.severity === "MEDIUM")    *)
(***************************************************************************)
\* analysis.is_accident && ...: any truthy is_accident.
IsEmergencyTruthy(a) ==
    /\ a.is_accident \in {JBool(TRUE), JStr("true")}
    /\ (a.severity = JStr("CRITICAL") \/ a.severity = JStr("MEDIUM"))

IsEmergency(a) ==
    /\ a.is_accident = JBool(TRUE)
    /\ (a.severity = JStr("CRITICAL") \/ a.severity = JStr("MEDIUM"))

\* The arguments of twilioClient.messages.create that depend on the request.
Message(a, location) ==
    [severity |-> a.severity, summary |-> a.summary, location |-> location]

\* The part of the prompt that depends on the request.
Prompt(impact, speed, tilt, location) ==
    [impact |-> impact, speed |-> speed, tilt |-> tilt, location |-> location]

NoResponse == [kind |-> "none", error |-> "", verdict |-> EmptyObject]
ErrorBody(msg) == [kind |-> "error", error |-> msg, verdict |-> EmptyObject]
\* res.json({ analysis }), res.json({ success: true, data: analysis })
VerdictBody(a) == [kind |-> "verdict", error |-> "", verdict |-> a]

(***************************************************************************)
(* Inputs: request bodies and replies of the reasoning service.            *)
(***************************************************************************)
NonNumbers ==
    {Undefined, Null, Bool(TRUE), Str(<<>>), Str(<<"a", "b", "c">>),
     Str(InfinityLit), Str(<<"1", "5">>)}
ImpactInputs == NonNumbers \cup {Num(1), Num(15), Num(16)}
SpeedInputs == NonNumbers \cup {Num(2), Num(50)}
TiltInputs == {Undefined, Str(InfinityLit), Num(0), Num(50)}
LocChars == {"a", "\n", "<"}
LocationInputs ==
    {Str(s) : s \in StringsUpTo(LocChars, MaxLocLen)} \cup {Undefined, Num(7)}
Payloads ==
    [impact : ImpactInputs, speed : SpeedInputs, tilt : TiltInputs,
     location : LocationInputs]

IsAccidentValues == {JUndef, JBool(TRUE), JBool(FALSE), JStr("true")}
SeverityValues ==
    {JUndef, JStr("LOW"), JStr("MEDIUM"), JStr("CRITICAL"), JStr("HIGH")}
ActionValues == {JUndef, JStr("Ignore"), JStr("Dispatch Ambulance")}

Opt(k, v) == IF v = JUndef THEN <<>> ELSE <<Member(k, v)>>
ObjectText(acc, sev, act) ==
    <<LBrace>> \o Opt("is_accident", acc) \o Opt("severity", sev)
        \o <<Member("summary", JStr("short explanation"))>>
        \o Opt("action", act) \o <<RBrace>>
GoodObject ==
    ObjectText(JBool(TRUE), JStr("CRITICAL"), JStr("Dispatch Ambulance"))
GeminiTexts ==
    {ObjectText(acc, sev, act) :
        acc \in IsAccidentValues, sev \in SeverityValues, act \in ActionValues}
    \cup {<<>>, <<Prose>>, <<LBrace>>, <<RBrace, LBrace>>,
          <<LBrace, Prose, RBrace>>,
          <<Prose>> \o GoodObject \o <<Prose>>,
          GoodObject \o <<Prose>> \o GoodObject,
          <<LBrace, Member("severity", JStr("LOW")),
            Member("severity", JStr("CRITICAL")), RBrace>>}

(***************************************************************************)
(* The /analyze handler                                                    *)
(***************************************************************************)
Respond(code, b, tr) ==
    /\ pc' = "done"
    /\ status' = code
    /\ resBody' = b
    /\ trace' = tr \o <<"respond">>

\* The handler up to its first await: validation, Number(), sanitizeString,
\* the prompt, model.generateContent(prompt).
Receive ==
    /\ pc = "idle"
    /\ \E b \in Payloads :
        /\ body' = b
        /\ IF \/ b.impact = Undefined
              \/ b.speed = Undefined
              \/ b.tilt = Undefined
              \/ b.location.t # "string"
              \/ Len(trim(b.location.s)) = 0
           THEN /\ Respond(400, ErrorBody(IF variant = "server"
                                THEN "Invalid sensor data"
                                ELSE "Invalid or missing sensor data"),
                           <<"validate">>)
                /\ UNCHANGED <<impactVal, speedVal, tiltVal, safeLocation,
                               geminiCalls, primary>>
           ELSE IF ~(\A x \in {Number(b.impact), Number(b.speed),
                               Number(b.tilt)} : isFinite(x))
           THEN /\ impactVal' = Number(b.impact)
                /\ speedVal' = Number(b.speed)
                /\ tiltVal' = Number(b.tilt)
                /\ Respond(400, ErrorBody(IF variant = "server"
                                THEN "Sensor values must be numbers"
                                ELSE "Sensor values must be valid numbers"),
                           <<"validate">>)
                /\ UNCHANGED <<safeLocation, geminiCalls, primary>>
           ELSE /\ impactVal' = Number(b.impact)
                /\ speedVal' = Number(b.speed)
                /\ tiltVal' = Number(b.tilt)
                /\ safeLocation' = sanitizeString(b.location, DefaultMaxLength)
                /\ geminiCalls' =
                       Append(geminiCalls,
                              Prompt(Number(b.impact), Number(b.speed),
                                     Number(b.tilt),
                                     sanitizeString(b.location,
                                                    DefaultMaxLength)))
                /\ primary' = "pending"
                /\ pc' = "awaitGemini"
                /\ trace' = <<"validate", "primary">>
                /\ UNCHANGED <<status, resBody>>
    /\ UNCHANGED <<variant, rawText, analysis, smsCalls, smsOutcome, sanVars>>

\* From the assignment of `analysis` to the second await or the response:
\* the emergency action and res.json.
EmergencyAction(a, tr) ==
    /\ analysis' = a
    /\ IF IsEmergency(a)
       THEN /\ smsCalls' = Append(smsCalls, Message(a, safeLocation))
            /\ smsOutcome' = "pending"
            /\ pc' = "awaitTwilio"
            /\ trace' = tr \o <<"send">>
            /\ UNCHANGED <<status, resBody>>
       ELSE /\ Respond(200, VerdictBody(a), tr)
            /\ UNCHANGED <<smsCalls, smsOutcome>>

\* The outer catch: res.status(500)
ServerError(msg, tr) ==
    /\ Respond(500, ErrorBody(msg), tr)
    /\ UNCHANGED <<analysis, smsCalls, smsOutcome>>

\* model.generateContent resolves and result.response.text() returns.
GeminiResolves ==
    /\ pc = "awaitGemini"
    /\ \E text \in GeminiTexts :
        /\ rawText' = text
        /\ IF ~extractJSON(text).threw
           THEN /\ primary' = "ok"
                /\ EmergencyAction(extractJSON(text).value,
                                   trace \o <<"verdict">>)
           ELSE /\ primary' = "unparseable"
                /\ IF variant = "server"
                   THEN EmergencyAction(Fallback(impactVal, speedVal),
                                        trace \o <<"fallback", "verdict">>)
                   ELSE ServerError("Malformed AI response", trace)
    /\ UNCHANGED <<variant, body, impactVal, speedVal, tiltVal, safeLocation,
                   geminiCalls, sanVars>>

\* model.generateContent rejects, or result.response.text() throws.
GeminiRejects ==
    /\ pc = "awaitGemini"
    /\ primary' = "threw"
    /\ IF variant = "server"
       THEN EmergencyAction(Fallback(impactVal, speedVal),
                            trace \o <<"fallback", "verdict">>)
       ELSE ServerError("Internal analysis failure", trace)
    /\ UNCHANGED <<variant, body, impactVal, speedVal, tiltVal, safeLocation,
                   geminiCalls, rawText, sanVars>>

\* sendEmergencySMS: twilioClient.messages.create resolves.
TwilioResolves ==
    /\ pc = "awaitTwilio"
    /\ smsOutcome' = "sent"
    /\ Respond(200, VerdictBody(analysis), trace)
    /\ UNCHANGED <<variant, body, impactVal, speedVal, tiltVal, safeLocation,
                   geminiCalls, primary, rawText, analysis, smsCalls, sanVars>>

\* sendEmergencySMS without its try/catch: the rejection reaches the outer catch.
TwilioRejectsUncaught ==
    /\ pc = "awaitTwilio"
    /\ smsOutcome' = "failed"
    /\ Respond(500, ErrorBody("Internal server error"), trace)
    /\ UNCHANGED <<variant, body, impactVal, speedVal, tiltVal, safeLocation,
                   geminiCalls, primary, rawText, analysis, smsCalls, sanVars>>

\* sendEmergencySMS sending once more after a rejection.
TwilioRejectsRetry ==
    /\ pc = "awaitTwilio"
    /\ IF Len(smsCalls) < 2
       THEN /\ smsCalls' = Append(smsCalls, Message(analysis, safeLocation))
            /\ trace' = trace \o <<"send">>
            /\ UNCHANGED <<pc, smsOutcome, status, resBody>>
       ELSE /\ smsOutcome' = "failed"
            /\ Respond(200, VerdictBody(analysis), trace)
            /\ UNCHANGED smsCalls
    /\ UNCHANGED <<variant, body, impactVal, speedVal, tiltVal, safeLocation,
                   geminiCalls, primary, rawText, analysis, sanVars>>

\* sendEmergencySMS: twilioClient.messages.create rejects; the catch logs.
TwilioRejects ==
    /\ pc = "awaitTwilio"
    /\ smsOutcome' = "failed"
    /\ Respond(200, VerdictBody(analysis), trace)
    /\ UNCHANGED <<variant, body, impactVal, speedVal, tiltVal, safeLocation,
                   geminiCalls, primary, rawText, analysis, smsCalls, sanVars>>

Init ==
    /\ variant \in {"server", "merged"}
    /\ pc = "idle"
    /\ body = [impact |-> Undefined, speed |-> Undefined, tilt |-> Undefined,
               location |-> Undefined]
    /\ impactVal = NaN
    /\ speedVal = NaN
    /\ tiltVal = NaN
    /\ safeLocation = <<>>
    /\ geminiCalls = <<>>
    /\ primary = "none"
    /\ rawText = <<>>
    /\ analysis = EmptyObject
    /\ smsCalls = <<>>
    /\ smsOutcome = "none"
    /\ status = 0
    /\ resBody = NoResponse
    /\ trace = <<>>
    /\ sanPc = "off"
    /\ sanInput = Undefined
    /\ sanCap = 0
    /\ sanOnce = <<>>
    /\ sanTwice = <<>>

Next ==
    \/ Receive
    \/ GeminiResolves
    \/ GeminiRejects
    \/ TwilioResolves
    \/ TwilioRejects

Spec == Init /\ [][Next]_vars

(***************************************************************************)
(* sanitizeString applied alone, and again to its own result.              *)
(***************************************************************************)
SanChars == {"a"} \cup StrippedChars
SanInputs ==
    {Str(s) : s \in StringsUpTo(SanChars, MaxStrLen)} \cup {Undefined, Num(7)}
SanCaps == 0..MaxCap \cup {DefaultMaxLength}

SanInit ==
    /\ variant = "server"
    /\ pc = "idle"
    /\ body = [impact |-> Undefined, speed |-> Undefined, tilt |-> Undefined,
               location |-> Undefined]
    /\ impactVal = NaN
    /\ speedVal = NaN
    /\ tiltVal = NaN
    /\ safeLocation = <<>>
    /\ geminiCalls = <<>>
    /\ primary = "none"
    /\ rawText = <<>>
    /\ analysis = EmptyObject
    /\ smsCalls = <<>>
    /\ smsOutcome = "none"
    /\ status = 0
    /\ resBody = NoResponse
    /\ trace = <<>>
    /\ sanPc = "start"
    /\ sanInput \in SanInputs
    /\ sanCap \in SanCaps
    /\ sanOnce = <<>>
    /\ sanTwice = <<>>

SanitizeOnce ==
    /\ sanPc = "start"
    /\ sanOnce' = sanitizeString(sanInput, sanCap)
    /\ sanPc' = "once"
    /\ UNCHANGED <<handlerVars, sanInput, sanCap, sanTwice>>

SanitizeTwice ==
    /\ sanPc = "once"
    /\ sanTwice' = sanitizeString(Str(sanOnce), sanCap)
    /\ sanPc' = "twice"
    /\ UNCHANGED <<handlerVars, sanInput, sanCap, sanOnce>>

SanNext ==
    \/ SanitizeOnce
    \/ SanitizeTwice

SpecSanitize == SanInit /\ [][SanNext]_vars

(***************************************************************************)
(* Properties                                                              *)
(***************************************************************************)
\* The request passed validation: the handler went on to the primary tier.
Validated == geminiCalls # <<>>

\* A payload whose sensor fields are JSON numbers and whose location is text
\* that sanitizes to something.
WellFormed(b) ==
    /\ b.impact.t = "number"
    /\ b.speed.t = "number"
    /\ b.tilt.t = "number"
    /\ b.location.t = "string"
    /\ ReplaceAll(b.location.s) # <<>>

Occurrences(e) == Cardinality({i \in 1..Len(trace) : trace[i] = e})

\* The spellings of a recommended action, as the specification writes it and
\* as the prompt of the handler does.
ActionNames(x) ==
    CASE x = "Ignore" -> {JStr("Ignore")}
      [] x = "LogEvent" -> {JStr("LogEvent"), JStr("Log Event")}
      [] x = "NotifyContact" -> {JStr("NotifyContact"), JStr("Notify Contact")}
      [] x = "DispatchAmbulance" ->
            {JStr("DispatchAmbulance"), JStr("Dispatch Ambulance")}

\* The ordered five-rule table of the specification, first match wins.
RuleTable(impact, speed, tilt) ==
    IF impact < 2 /\ speed < 5
    THEN [isAccident |-> FALSE, severity |-> "LOW", action |-> "Ignore"]
    ELSE IF 2 <= impact /\ impact < 8 /\ speed > 20 /\ tilt < 20
    THEN [isAccident |-> FALSE, severity |-> "LOW", action |-> "LogEvent"]
    ELSE IF impact >= 8 /\ speed >= 40
    THEN [isAccident |-> TRUE, severity |-> "MEDIUM",
          action |-> "NotifyContact"]
    ELSE IF impact >= 12 /\ speed >= 60 /\ tilt >= 45
    THEN [isAccident |-> TRUE, severity |-> "CRITICAL",
          action |-> "DispatchAmbulance"]
    ELSE [isAccident |-> FALSE, severity |-> "LOW", action |-> "LogEvent"]

MatchesRule(a, r) ==
    /\ a.is_accident = JBool(r.isAccident)
    /\ a.severity = JStr(r.severity)
    /\ a.action \in ActionNames(r.action)

\* C1: when the primary tier is unavailable (the call threw or its text was
\* unparseable), the Verdict the handler returns is the one the five-rule
\* table gives for the Reading.
C1_FallbackMatchesRuleTable ==
    (pc = "done" /\ status = 200 /\ WellFormed(body)
        /\ primary \in {"threw", "unparseable"})
        => /\ resBody.kind = "verdict"
           /\ MatchesRule(resBody.verdict,
                          RuleTable(impactVal.v, speedVal.v, tiltVal.v))

\* C2: every Verdict the handler returns has severity CRITICAL only with
\* isAccident true, and isAccident false only with action Ignore or LogEvent.
C2_SeverityActionConsistency ==
    (pc = "done" /\ status = 200 /\ WellFormed(body))
        => /\ resBody.verdict.severity = JStr("CRITICAL")
                => resBody.verdict.is_accident = JBool(TRUE)
           /\ resBody.verdict.is_accident = JBool(FALSE)
                => resBody.verdict.action
                       \in ActionNames("Ignore") \cup ActionNames("LogEvent")

\* isAccident = true and severity in {MEDIUM, CRITICAL}
Qualifies(a) ==
    /\ a.is_accident.t = "boolean"
    /\ a.is_accident.b
    /\ a.severity.t = "string"
    /\ a.severity.s \in {"MEDIUM", "CRITICAL"}

\* C3: within one request a notification send is attempted if and only if
\* the final Verdict has isAccident = true and severity MEDIUM or CRITICAL;
\* no send is ever attempted for another Verdict, or without a Verdict.
C3_NotificationGating ==
    /\ smsCalls # <<>> => (Occurrences("verdict") = 1 /\ Qualifies(analysis))
    /\ (pc = "done" /\ status = 200)
          => (smsCalls # <<>> <=> Qualifies(resBody.verdict))
    /\ (pc = "done" /\ status # 200) => smsCalls = <<>>

\* C3, its case: a Verdict of the primary tier with isAccident true and
\* severity MEDIUM was answered after one send.
C3_Witness ==
    /\ pc = "done"
    /\ status = 200
    /\ primary = "ok"
    /\ resBody.verdict.is_accident = JBool(TRUE)
    /\ resBody.verdict.severity = JStr("MEDIUM")
    /\ Len(smsCalls) = 1

Populated(a) ==
    /\ a.is_accident # JUndef
    /\ a.severity # JUndef
    /\ a.summary # JUndef
    /\ a.action # JUndef

\* C4: every validated request, whatever the reasoning service did, ends
\* with a success response whose Verdict has isAccident, severity, summary
\* and action populated, never with a server error.
C4_Totality ==
    (pc = "done" /\ Validated /\ WellFormed(body))
        => /\ status = 200
           /\ resBody.kind = "verdict"
           /\ Populated(resBody.verdict)

\* A decoded reply that is not a Verdict: an unknown severity, an isAccident
\* that is no boolean, or a missing field.
MalformedVerdict(a) ==
    \/ a.severity \notin {JStr("LOW"), JStr("MEDIUM"), JStr("CRITICAL")}
    \/ a.is_accident.t # "boolean"
    \/ ~Populated(a)

\* C5: a parseable reply of the primary tier that is not a Verdict is
\* treated as malformed: the fallback runs and the returned Verdict is not
\* the primary tier's object.
C5_MalformedTriggersFallback ==
    (pc = "done" /\ primary = "ok" /\ WellFormed(body)
        /\ MalformedVerdict(extractJSON(rawText).value))
        => /\ status = 200
           /\ Occurrences("fallback") = 1
           /\ resBody.verdict # extractJSON(rawText).value

\* C6: once a send was attempted, the response is the success response
\* carrying the Verdict determined before the send, whether the gateway
\* accepted the message or threw.
C6_NotificationFailureNonFatal ==
    (pc = "done" /\ smsOutcome \in {"sent", "failed"})
        => /\ status = 200
           /\ resBody.kind = "verdict"
           /\ resBody.verdict = analysis
           /\ smsCalls[1].severity = resBody.verdict.severity
           /\ smsCalls[1].summary = resBody.verdict.summary

\* C6, its case: the gateway threw and the request was answered.
C6_Witness ==
    /\ pc = "done"
    /\ smsOutcome = "failed"
    /\ status = 200
    /\ Qualifies(resBody.verdict)

\* A sensor field that is missing, null, a boolean, an empty or non-numeric
\* string, or not finite.
InvalidSensor(x) ==
    \/ x.t \in {"undefined", "null", "boolean"}
    \/ x.t = "string" /\ (x.s = <<>> \/ ~isFinite(Number(x)))

\* A location that is missing, not text, or empty after trimming.
InvalidLocation(x) == x.t # "string" \/ trim(x.s) = <<>>

InvalidPayload(b) ==
    \/ InvalidSensor(b.impact)
    \/ InvalidSensor(b.speed)
    \/ InvalidSensor(b.tilt)
    \/ InvalidLocation(b.location)

\* C7: a payload with an invalid sensor field or location is rejected with a
\* client error, and neither the reasoning service nor the notification
\* gateway is called for it.
C7_InvalidPayloadRejected ==
    (pc # "idle" /\ InvalidPayload(body))
        => /\ geminiCalls = <<>>
           /\ smsCalls = <<>>
           /\ pc = "done"
           /\ status = 400

\* C8: for a request that passed validation, the sanitized location given to
\* the prompt and to the notification message is not empty.
C8_SanitizedLocationNonEmpty ==
    (Validated /\ body.impact.t = "number" /\ body.speed.t = "number"
        /\ body.tilt.t = "number")
        => /\ safeLocation # <<>>
           /\ \A i \in 1..Len(geminiCalls) : geminiCalls[i].location # <<>>
           /\ \A i \in 1..Len(smsCalls) : smsCalls[i].location # <<>>

Rank(e) ==
    CASE e = "validate" -> 1
      [] e = "primary" -> 2
      [] e = "fallback" -> 3
      [] e = "verdict" -> 4
      [] e = "send" -> 5
      [] e = "respond" -> 6

\* C9: the steps of a request run in the order validation, primary call,
\* fallback, Verdict, send, response, each at most once; the fallback runs
\* only after the primary tier failed; a send happens only after the Verdict
\* exists, and exactly once (no retry) for a qualifying Verdict.
C9_StrictlySequential ==
    /\ \A i, j \in 1..Len(trace) : i < j => Rank(trace[i]) < Rank(trace[j])
    /\ trace # <<>> => trace[1] = "validate"
    /\ Len(geminiCalls) = Occurrences("primary")
    /\ Len(smsCalls) = Occurrences("send")
    /\ Len(geminiCalls) <= 1
    /\ Len(smsCalls) <= 1
    /\ Occurrences("fallback") = 1 => primary \in {"threw", "unparseable"}
    /\ Occurrences("send") = 1 => Occurrences("verdict") = 1
    /\ Occurrences("verdict") = 1 => Occurrences("primary") = 1
    /\ Occurrences("respond") = 1 <=> pc = "done"
    /\ (pc = "done" /\ status = 200 /\ Qualifies(resBody.verdict))
          => Len(smsCalls) = 1

\* C9, its case: the primary call failed, the fallback gave a qualifying
\* Verdict, one send was attempted and the request was answered.
C9_Witness ==
    /\ pc = "done"
    /\ trace = <<"validate", "primary", "fallback", "verdict", "send",
                 "respond">>
    /\ smsOutcome = "failed"

\* C10: sanitizeString applied to its own result returns it unchanged; the
\* result holds none of the stripped characters and is at most maxLength
\* long.
C10_SanitizeIdempotentBounded ==
    /\ sanPc \in {"once", "twice"}
          => /\ \A i \in 1..Len(sanOnce) : sanOnce[i] \notin StrippedChars
             /\ Len(sanOnce) <= sanCap
    /\ sanPc = "twice" => sanTwice = sanOnce

\* C10, its case: a string with stripped characters, longer than maxLength
\* after stripping, was sanitized twice.
C10_Witness ==
    /\ sanPc = "twice"
    /\ sanInput.t = "string"
    /\ \E i \in 1..Len(sanInput.s) : sanInput.s[i] \in StrippedChars
    /\ Len(sanOnce) = sanCap
    /\ Len(sanOnce) < Len(ReplaceAll(sanInput.s))
    /\ sanOnce # <<>>

====
